---- MODULE Spec2Model ----
(***************************************************************************)
(* Model of the datasheet field-extraction engine, src/src/extract.py.     *)
(*                                                                         *)
(* Texts are TLA+ strings handled character by character (Len, SubSeq,     *)
(* \o).  Regular expressions are syntax trees, matched with the            *)
(* backtracking priority of Python's re module: the results of a node are  *)
(* the sequence of its possible matches in the order re tries them, and    *)
(* the match re reports is the first result at the leftmost position.      *)
(* A float is an exact decimal: num / 10^exp with no trailing zero.        *)
(***************************************************************************)
EXTENDS Integers, Sequences, FiniteSets, TLC

VARIABLES
  file,        \* the input document: whether it opens, and what each page yields
  ext,         \* whether the pattern table holds a field added to it later
  pc,          \* position in extract_specs_from_pdf
  pn,          \* index of the page the page loop is at
  text_parts,  \* text_parts
  text,        \* text
  out,         \* out
  err,         \* the exception that left the function, "" when none
  ret          \* what the function returned

vars == <<file, ext, pc, pn, text_parts, text, out, err, ret>>

\* Several calls of extract_specs_from_pdf in one process
VARIABLES
  calls,       \* the frame of each call: its argument and its locals
  table,       \* the module's LABEL_PATTERNS as the process holds it
  returned,    \* every (argument, result) a call has handed back so far
  started      \* how many calls have been started

callVars == <<calls, table, returned, started>>

\* Calls of extract_specs_from_pdf that are handed the same object again
VARIABLES
  fobj,        \* the argument: what kind of object it is, where its read position is
  pdf_bytes,   \* pdf_bytes of the call in progress
  rpc,         \* position in the call in progress
  outcomes     \* what each finished call on the object handed back, in order

reuseVars == <<fobj, pdf_bytes, rpc, outcomes>>

\* The photo uploader of one checklist item over the reruns of the script
VARIABLES
  uploader,      \* the files the st.file_uploader widget holds, in order of upload
  remembered,    \* st.session_state[state_key]: whether it is set, and its list
  photos,        \* st.session_state.photos_by_item[item_id]
  appends,       \* every file a rerun has appended to photos, in order
  last_added,    \* the files the user added to the uploader since the rerun before
  last_appended, \* the files the last rerun appended to photos
  cleared,       \* the clear button was pressed and no file has been added since
  uploads,       \* how many files the user has uploaded
  clears         \* how often the clear button was pressed

photoVars == <<uploader, remembered, photos, appends, last_added, last_appended,
               cleared, uploads, clears>>

\* The checklist results and the export tab over the reruns of the script
VARIABLES
  sections,    \* sections: the checklist as normalize_sections returned it
  results,     \* st.session_state.results, in the order the keys were inserted
  errors,      \* errors in the "Preview & export" tab
  disabled,    \* disabled, handed to the three download buttons
  summary,     \* summary in the "Preview & export" tab
  edits        \* how many interactions the user has made

reportVars == <<sections, results, errors, disabled, summary, edits>>

\* One call of opex_summary
VARIABLES
  opt_a,       \* a: the first option, a mapping as extraction returns it
  opt_b,       \* b
  params,      \* electricity_price, eflh, years, capex_a, capex_b
  opex         \* what the call computed, once it has returned

opexVars == <<opt_a, opt_b, params, opex>>

\* the variables no step of a single extraction touches
otherVars == <<callVars, reuseVars, photoVars, reportVars, opexVars>>

\* the variables no step of the interleaved calls touches
besideCalls == <<vars, reuseVars, photoVars, reportVars, opexVars>>

\* the variables no step of a call on a reused object touches
besideReuse == <<vars, callVars, photoVars, reportVars, opexVars>>

\* the variables no rerun of the photo uploader touches
besidePhotos == <<vars, callVars, reuseVars, reportVars, opexVars>>

\* the variables no rerun of the checklist touches
besideReport == <<vars, callVars, reuseVars, photoVars, opexVars>>

\* the variables opex_summary does not touch
besideOpex == <<vars, callVars, reuseVars, photoVars, reportVars>>

allVars == <<vars, callVars, reuseVars, photoVars, reportVars, opexVars>>

\* their values where a specification does not use them
CallsIdle == calls = <<>> /\ table = <<>> /\ returned = {} /\ started = 0

ReuseIdle ==
  /\ fobj = [kind |-> "bytes", handed |-> "start", pos |-> "start",
             doc |-> [ok |-> TRUE, error |-> "", pages |-> <<>>]]
  /\ pdf_bytes = [empty |-> TRUE, doc |-> [ok |-> TRUE, error |-> "", pages |-> <<>>]]
  /\ rpc = "unused"
  /\ outcomes = <<>>

PhotosIdle ==
  /\ uploader = <<>>
  /\ remembered = [present |-> FALSE, files |-> <<>>]
  /\ photos = <<>>
  /\ appends = <<>>
  /\ last_added = <<>>
  /\ last_appended = <<>>
  /\ cleared = FALSE
  /\ uploads = 0
  /\ clears = 0

ReportIdle ==
  /\ sections = <<>>
  /\ results = <<>>
  /\ errors = <<>>
  /\ disabled = FALSE
  /\ summary = [overall |-> "unused"]
  /\ edits = 0

OpexIdle ==
  /\ opt_a = <<>>
  /\ opt_b = <<>>
  /\ params = [eflh |-> 0]
  /\ opex = [done |-> FALSE]

OthersIdle == CallsIdle /\ ReuseIdle /\ PhotosIdle /\ ReportIdle /\ OpexIdle

(***************************************************************************)
(* Characters and strings                                                  *)
(***************************************************************************)
Char(s, i) == SubSeq(s, i, i)

\* str.lower() on the ASCII letters (re.IGNORECASE compares case-folded text)
LowerOf ==
  ("A" :> "a") @@ ("B" :> "b") @@ ("C" :> "c") @@ ("D" :> "d") @@ ("E" :> "e") @@
  ("F" :> "f") @@ ("G" :> "g") @@ ("H" :> "h") @@ ("I" :> "i") @@ ("J" :> "j") @@
  ("K" :> "k") @@ ("L" :> "l") @@ ("M" :> "m") @@ ("N" :> "n") @@ ("O" :> "o") @@
  ("P" :> "p") @@ ("Q" :> "q") @@ ("R" :> "r") @@ ("S" :> "s") @@ ("T" :> "t") @@
  ("U" :> "u") @@ ("V" :> "v") @@ ("W" :> "w") @@ ("X" :> "x") @@ ("Y" :> "y") @@
  ("Z" :> "z")

UpperChars == DOMAIN LowerOf

LowerChars == {LowerOf[c] : c \in UpperChars}

FoldChar(c) == IF c \in UpperChars THEN LowerOf[c] ELSE c

\* the characters of s, and the characters of s.lower(), as sequences
Chars(s) == SubSeq([i \in 1..Len(s) |-> Char(s, i)], 1, Len(s))

Fold(s) == SubSeq([i \in 1..Len(s) |-> FoldChar(Char(s, i))], 1, Len(s))

\* \s, and the characters str.strip() removes
SpaceChars == {" ", "\t", "\n", "\r", "\f"}

\* \d
DigitChars == {"0", "1", "2", "3", "4", "5", "6", "7", "8", "9"}

DigitVal ==
  ("0" :> 0) @@ ("1" :> 1) @@ ("2" :> 2) @@ ("3" :> 3) @@ ("4" :> 4) @@
  ("5" :> 5) @@ ("6" :> 6) @@ ("7" :> 7) @@ ("8" :> 8) @@ ("9" :> 9)

\* str.strip(): from the first to the last character that is not a space
Strip(s) ==
  LET solid == {i \in 1..Len(s) : Char(s, i) \notin SpaceChars}
  IN IF solid = {} THEN ""
     ELSE SubSeq(s, CHOOSE i \in solid : \A j \in solid : i <= j,
                    CHOOSE i \in solid : \A j \in solid : i >= j)

RECURSIVE RemoveFrom(_, _, _)
RemoveFrom(s, c, i) ==
  IF i > Len(s) THEN ""
  ELSE (IF Char(s, i) = c THEN "" ELSE Char(s, i)) \o RemoveFrom(s, c, i + 1)

\* x.replace(",", "")
RemoveCommas(s) == RemoveFrom(s, ",", 1)

(***************************************************************************)
(* Regular expressions                                                     *)
(***************************************************************************)
Inf == 0 - 1

Lit(s)           == [t |-> "lit", cs |-> Chars(s)]
Cls(chars)       == [t |-> "set", chars |-> chars, neg |-> FALSE]
NotCls(chars)    == [t |-> "set", chars |-> chars, neg |-> TRUE]
Rep(c, lo, hi, g) == [t |-> "rep", sub |-> c, min |-> lo, max |-> hi, greedy |-> g]
Opt(n)           == [t |-> "opt", sub |-> n]
Alt(a, b)        == [t |-> "alt", a |-> a, b |-> b]
Grp(k, n)        == [t |-> "grp", idx |-> k, sub |-> n]
Cat(items)       == [t |-> "seq", items |-> items]
Eos              == [t |-> "eos"]

WS    == Cls(SpaceChars)
DIGIT == Cls(DigitChars)
DOT   == NotCls({"\n"})

Plus(c)     == Rep(c, 1, Inf, TRUE)
Star(c)     == Rep(c, 0, Inf, TRUE)
LazyPlus(c) == Rep(c, 1, Inf, FALSE)
LazyStar(c) == Rep(c, 0, Inf, FALSE)

\* (\d+(\.\d+)?) as groups k and k+1
Num(k) == Grp(k, Cat(<<Plus(DIGIT), Opt(Grp(k + 1, Cat(<<Lit("."), Plus(DIGIT)>>)))>>))

MaxGroups == 4

NoGroup == <<0, 0>>

NoCaps == [g \in 1..MaxGroups |-> NoGroup]

InClass(n, c) == IF n.neg THEN c \notin n.chars ELSE c \in n.chars

\* How many characters of class n follow position i of cs, at most max of them
\* (max = Inf: any number).
RunLen(n, cs, i, max) ==
  LET Stop(k) == k = max \/ i + k > Len(cs) \/ ~InClass(n, cs[i + k])
  IN CHOOSE k \in 0..(Len(cs) + 1) : Stop(k) /\ \A j \in 0..(k - 1) : ~Stop(j)

\* $ without re.MULTILINE: at the end, or before a newline that ends the string
AtEnd(cs, i) == i = Len(cs) + 1 \/ (i = Len(cs) /\ cs[i] = "\n")

RECURSIVE M(_, _, _)
RECURSIVE MCat(_, _, _, _)
RECURSIVE MEach(_, _, _, _, _, _)

\* The matches of node n on the characters s from state st, in re's order of
\* trial.
M(n, s, st) ==
  CASE n.t = "lit" ->
         IF st.pos + Len(n.cs) - 1 <= Len(s)
            /\ \A k \in 1..Len(n.cs) : s[st.pos + k - 1] = n.cs[k]
         THEN <<[st EXCEPT !.pos = @ + Len(n.cs)]>>
         ELSE <<>>
    [] n.t = "set" ->
         IF st.pos <= Len(s) /\ InClass(n, s[st.pos])
         THEN <<[st EXCEPT !.pos = @ + 1]>>
         ELSE <<>>
    [] n.t = "rep" ->
         LET r == RunLen(n.sub, s, st.pos, n.max)
         IN IF r < n.min THEN <<>>
            ELSE [k \in 1..(r - n.min + 1) |->
                    [st EXCEPT !.pos = @ + (IF n.greedy THEN r - k + 1
                                                        ELSE n.min + k - 1)]]
    [] n.t = "opt" -> M(n.sub, s, st) \o <<st>>
    [] n.t = "alt" -> M(n.a, s, st) \o M(n.b, s, st)
    [] n.t = "grp" ->
         LET rs == M(n.sub, s, st)
         IN [k \in 1..Len(rs) |->
               [rs[k] EXCEPT !.caps[n.idx] = <<st.pos, rs[k].pos>>,
                             !.last = n.idx]]
    [] n.t = "seq" -> MCat(n.items, 1, s, st)
    [] n.t = "eos" -> IF AtEnd(s, st.pos) THEN <<st>> ELSE <<>>

MCat(items, k, s, st) ==
  IF k > Len(items) THEN <<st>>
  ELSE LET rs == M(items[k], s, st) IN MEach(rs, 1, Len(rs), items, k, s)

\* the rest of the sequence after each of rs[lo..hi], in order
MEach(rs, lo, hi, items, k, s) ==
  IF lo > hi THEN <<>>
  ELSE IF lo = hi THEN MCat(items, k + 1, s, rs[lo])
  ELSE LET mid == (lo + hi) \div 2
       IN MEach(rs, lo, mid, items, k, s) \o MEach(rs, mid + 1, hi, items, k, s)

NoMatch == [found |-> FALSE, start |-> 0, end |-> 0, caps |-> NoCaps, last |-> 0]

MatchesAt(pat, cs, i) == M(pat, cs, [pos |-> i, caps |-> NoCaps, last |-> 0])

\* The characters a match of node n can begin with; any = TRUE where the node
\* can match the empty string or begin with a character outside a finite set.
AnyFirst == [any |-> TRUE, chars |-> {}]

RECURSIVE FirstChars(_)
FirstChars(n) ==
  CASE n.t = "lit" -> IF Len(n.cs) = 0 THEN AnyFirst
                      ELSE [any |-> FALSE, chars |-> {n.cs[1]}]
    [] n.t = "set" -> IF n.neg THEN AnyFirst
                      ELSE [any |-> FALSE, chars |-> n.chars]
    [] n.t = "rep" -> IF n.min = 0 THEN AnyFirst ELSE FirstChars(n.sub)
    [] n.t = "alt" -> LET a == FirstChars(n.a)
                          b == FirstChars(n.b)
                      IN IF a.any \/ b.any THEN AnyFirst
                         ELSE [any |-> FALSE, chars |-> a.chars \cup b.chars]
    [] n.t = "grp" -> FirstChars(n.sub)
    [] n.t = "seq" -> IF Len(n.items) = 0 THEN AnyFirst
                      ELSE FirstChars(n.items[1])
    [] OTHER -> AnyFirst

\* The start positions of cs at which pat matches.  As the scan of re.search
\* does, positions whose character cannot begin a match are passed over
\* without a trial.
MatchStarts(pat, cs) ==
  UNION {{i \in 1..(Len(cs) + 1) :
            /\ f.any \/ (i <= Len(cs) /\ cs[i] \in f.chars)
            /\ MatchesAt(pat, cs, i) # <<>>} : f \in {FirstChars(pat)}}

\* A scan that reports the match at the last position that has one.
SearchChars_LastStart(pat, cs) ==
  LET starts == MatchStarts(pat, cs)
  IN IF starts = {} THEN NoMatch
     ELSE LET i == CHOOSE i \in starts : \A j \in starts : i >= j
              r == MatchesAt(pat, cs, i)[1]
          IN [found |-> TRUE, start |-> i, end |-> r.pos,
              caps |-> r.caps, last |-> r.last]

\* The scan of re.search: the first match at the first position that has one.
SearchChars(pat, cs) ==
  LET starts == MatchStarts(pat, cs)
  IN IF starts = {} THEN NoMatch
     ELSE LET i == CHOOSE i \in starts : \A j \in starts : i <= j
              r == MatchesAt(pat, cs, i)[1]
          IN [found |-> TRUE, start |-> i, end |-> r.pos,
              caps |-> r.caps, last |-> r.last]

\* re.search(pattern, text, re.IGNORECASE): pattern literals are written folded
SearchIC(pat, s) == SearchChars(pat, Fold(s))

\* re.search(pattern, text)
Search(pat, s) == SearchChars(pat, Chars(s))

\* m.group(g) of a match on s; "" stands for a group that did not take part
\* only where the caller has tested caps[g] # NoGroup
GroupText(m, s, g) == SubSeq(s, m.caps[g][1], m.caps[g][2] - 1)

(***************************************************************************)
(* Values of the result mapping                                            *)
(***************************************************************************)
NoneVal == [kind |-> "none", s |-> "", num |-> 0, exp |-> 0]

StrVal(s) == [kind |-> "str", s |-> s, num |-> 0, exp |-> 0]

RECURSIVE Normal(_, _)
Normal(num, exp) ==
  IF exp > 0 /\ num % 10 = 0 THEN Normal(num \div 10, exp - 1)
  ELSE [kind |-> "float", s |-> "", num |-> num, exp |-> exp]

\* the float num / 10^exp
FloatVal(num, exp) == Normal(num, exp)

RECURSIVE DigitsToInt(_, _, _)
DigitsToInt(s, i, acc) ==
  IF i > Len(s) THEN acc
  ELSE IF Char(s, i) \in DigitChars
       THEN DigitsToInt(s, i + 1, 10 * acc + DigitVal[Char(s, i)])
       ELSE DigitsToInt(s, i + 1, acc)

RECURSIVE IndexOf(_, _, _)
IndexOf(s, c, i) ==
  IF i > Len(s) THEN 0 ELSE IF Char(s, i) = c THEN i ELSE IndexOf(s, c, i + 1)

\* float(t) for t of the form -?digits(.digits)?
ParseFloat(t) ==
  LET dot == IndexOf(t, ".", 1)
      exp == IF dot = 0 THEN 0 ELSE Len(t) - dot
      mag == DigitsToInt(t, 1, 0)
  IN FloatVal(IF Char(t, 1) = "-" THEN 0 - mag ELSE mag, exp)

\* -?\d+(\.\d+)?
FloatPattern ==
  Cat(<<Rep(Cls({"-"}), 0, 1, TRUE), Plus(DIGIT),
        Opt(Grp(1, Cat(<<Lit("."), Plus(DIGIT)>>)))>>)

\* _to_float(x) for a string x
_to_float(x) ==
  LET x1 == Strip(x)
  IN IF x1 = "" THEN NoneVal
     ELSE LET x2 == RemoveCommas(x1)
              m  == Search(FloatPattern, x2)
          IN IF m.found THEN ParseFloat(SubSeq(x2, m.start, m.end - 1))
             ELSE NoneVal

(***************************************************************************)
(* _grab                                                                   *)
(***************************************************************************)
\* return m.group(1), whichever alternative matched
FirstGroup_Group1Only(m, s, i) ==
  IF m.caps[1] # NoGroup /\ Strip(GroupText(m, s, 1)) # ""
  THEN StrVal(Strip(GroupText(m, s, 1)))
  ELSE NoneVal

RECURSIVE FirstGroup(_, _, _)
\* for i in range(1, (m.lastindex or 0) + 1): the first group that took part
\* and is not blank, stripped; NoneVal when there is none
FirstGroup(m, s, i) ==
  IF i > m.last THEN NoneVal
  ELSE IF m.caps[i] # NoGroup /\ Strip(GroupText(m, s, i)) # ""
       THEN StrVal(Strip(GroupText(m, s, i)))
       ELSE FirstGroup(m, s, i + 1)

_grab(s, pattern) ==
  LET m == SearchIC(pattern, s)
  IN IF ~m.found THEN NoneVal ELSE FirstGroup(m, s, 1)

(***************************************************************************)
(* LABEL_PATTERNS, in the order of the dict.  _grab searches every pattern *)
(* with re.IGNORECASE, so literals and letter classes are written folded.  *)
(***************************************************************************)
LitIC(s) == [t |-> "lit", cs |-> Fold(s)]

\* label\s+(.+)
LabelText(label) == Cat(<<LitIC(label), Plus(WS), Grp(1, Plus(DOT))>>)

\* label\s+(\d+(\.\d+)?)
LabelNum(label) == Cat(<<LitIC(label), Plus(WS), Num(1)>>)

\* label (\d+(\.\d+)?)\s*unit: one blank between label and number
LabelNumUnit_OneSpace(label, unit) ==
  Cat(<<LitIC(label), Lit(" "), Num(1), Star(WS), LitIC(unit)>>)

\* label\s+(\d+(\.\d+)?)\s*unit
LabelNumUnit(label, unit) ==
  Cat(<<LitIC(label), Plus(WS), Num(1), Star(WS), LitIC(unit)>>)

\* label.*?\s(\d+(\.\d+)?)\s*unit
LabelGapNumUnit(label, unit) ==
  Cat(<<LitIC(label), LazyStar(DOT), WS, Num(1), Star(WS), LitIC(unit)>>)

\* (?:a|b)\s+(\d+(\.\d+)?)\s*unit
EitherLabelNumUnit(a, b, unit) ==
  Cat(<<Alt(LitIC(a), LitIC(b)), Plus(WS), Num(1), Star(WS), LitIC(unit)>>)

\* [A-Z0-9\-\s] under re.IGNORECASE
ModelChars == LowerChars \cup DigitChars \cup {"-"} \cup SpaceChars

\* [A-Za-z0-9]
AlnumChars == LowerChars \cup DigitChars

LABEL_PATTERNS == <<
  [key |-> "range",            pat |-> LabelText("Range")],
  [key |-> "chiller_model",    pat |-> LabelText("Chiller model")],
  [key |-> "model",
   pat |-> Cat(<<LitIC("Model"), Plus(WS), Grp(1, LazyPlus(Cls(ModelChars))),
                 Alt(Lit("\n"), Eos)>>)],
  [key |-> "unit_application", pat |-> LabelText("Unit Application")],
  [key |-> "compressor_type",  pat |-> LabelText("Compressor type")],
  [key |-> "refrigerant",
   pat |-> Cat(<<LitIC("Refrigerant Type"), LazyStar(DOT), WS,
                 Grp(1, Cat(<<Cls({"r"}), Rep(DIGIT, 3, 4, TRUE),
                              Star(Cls(AlnumChars))>>))>>)],
  [key |-> "refrigerant_gwp",  pat |-> LabelNum("Refrigerant GWP")],
  [key |-> "electrical_supply", pat |-> LabelText("Electrical supply")],
  [key |-> "design_ambient_c",
   pat |-> LabelNumUnit("Outdoor air dry bulb temperature", "C")],
  [key |-> "ewt_c",  pat |-> LabelNumUnit("Fluid entering temperature", "C")],
  [key |-> "lwt_c",  pat |-> LabelNumUnit("Fluid leaving temperature", "C")],
  [key |-> "fluid",
   pat |-> Cat(<<LitIC("Fluid Type and concentration"), Plus(WS),
                 Grp(1, Plus(Cls(LowerChars \cup {" "})))>>)],
  [key |-> "antifreeze_pct",
   pat |-> Cat(<<LitIC("Fluid Type and concentration"), LazyStar(DOT), Lit("/"),
                 Plus(WS), Num(1), Star(WS), Lit("%")>>)],
  [key |-> "elevation_m",      pat |-> LabelNumUnit("Elevation", "m")],
  [key |-> "gross_capacity_kw", pat |-> LabelNumUnit("Gross capacity", "kW")],
  [key |-> "net_capacity_kw",  pat |-> LabelNumUnit("Net capacity", "kW")],
  [key |-> "power_kw",
   pat |-> EitherLabelNumUnit("Gross unit power", "Total absorbed power", "kW")],
  [key |-> "gross_eer_kw_per_kw", pat |-> LabelNumUnit("Gross EER", "EER")],
  [key |-> "net_eer_kw_per_kw", pat |-> LabelNumUnit("Net EER", "EER")],
  [key |-> "design_flow_ls",   pat |-> LabelNumUnit("Design flow rate", "L/s")],
  [key |-> "evap_pressure_drop_kpa",
   pat |-> LabelNumUnit("Evaporator Pressure drop (Design)", "kPa")],
  [key |-> "sound_power_dba",
   pat |-> LabelGapNumUnit("Outdoor sound power level", "dBA")],
  [key |-> "sound_pressure_dba",
   pat |-> LabelGapNumUnit("Outdoor sound pressure level", "dBA")],
  [key |-> "iplv_si",          pat |-> LabelNum("IPLV.SI")],
  [key |-> "nplv_si",          pat |-> LabelNum("NPLV.SI")],
  [key |-> "running_current_a", pat |-> LabelNumUnit("Current", "A")],
  [key |-> "startup_current_a", pat |-> LabelNumUnit("Start-up current", "A")],
  [key |-> "max_amps_a",
   pat |-> Alt(Cat(<<LitIC("Max amps"), Plus(WS), Num(1), Star(WS), LitIC("A")>>),
               Cat(<<LitIC("Maximum running current"), Plus(WS), Num(3),
                     Star(WS), LitIC("A")>>))],
  [key |-> "max_power_kw",
   pat |-> LabelNumUnit("Maximum power at maximum current", "kW")],
  [key |-> "cos_phi",
   pat |-> LabelNum("Displacement power factor (cos-phi)")],
  [key |-> "length_mm",        pat |-> LabelNumUnit("Length", "mm")],
  [key |-> "width_mm",         pat |-> LabelNumUnit("Width", "mm")],
  [key |-> "height_mm",        pat |-> LabelNumUnit("Height", "mm")],
  [key |-> "shipping_weight_kg",
   pat |-> EitherLabelNumUnit("Unit shipping weight",
                              "Shipping weight including packaging", "kg")],
  [key |-> "operating_weight_kg",
   pat |-> LabelNumUnit("Operating weight", "kg")]
>>

\* the set literal of the numeric conversions
NumericKeys ==
  {"design_ambient_c", "ewt_c", "lwt_c", "antifreeze_pct", "elevation_m",
   "gross_capacity_kw", "net_capacity_kw", "power_kw", "gross_eer_kw_per_kw",
   "net_eer_kw_per_kw", "design_flow_ls", "evap_pressure_drop_kpa",
   "sound_power_dba", "sound_pressure_dba", "iplv_si", "nplv_si",
   "running_current_a", "startup_current_a", "max_amps_a", "max_power_kw",
   "cos_phi", "length_mm", "width_mm", "height_mm", "shipping_weight_kg",
   "operating_weight_kg", "refrigerant_gwp"}

LabelKeys == {LABEL_PATTERNS[i].key : i \in 1..Len(LABEL_PATTERNS)}

PatternOf(key) ==
  LABEL_PATTERNS[CHOOSE i \in 1..Len(LABEL_PATTERNS) : LABEL_PATTERNS[i].key = key].pat

RawTextKey == "_raw_text"

(***************************************************************************)
(* The statements of extract_specs_from_pdf                                *)
(***************************************************************************)
ModelMaxLen == 60

EmptyMap == <<>>

Put(map, key, val) == (key :> val) @@ map

\* t = page.extract_text() or ""
PageText(page) == IF page.none THEN "" ELSE page.s

\* text_parts.append(t) for every page
AppendPage_KeepAll(parts, t) == Append(parts, t)

\* if t.strip(): text_parts.append(t)
AppendPage(parts, t) == IF Strip(t) # "" THEN Append(parts, t) ELSE parts

RECURSIVE JoinFrom(_, _)
JoinFrom(parts, i) ==
  IF i > Len(parts) THEN ""
  ELSE IF i = Len(parts) THEN parts[i]
  ELSE parts[i] \o "\n" \o JoinFrom(parts, i + 1)

\* "\n".join(text_parts)
JoinParts(parts) == JoinFrom(parts, 1)

\* out = {"_raw_text": text.strip()}
InitOut_Stripped(t) == Put(EmptyMap, RawTextKey, StrVal(Strip(t)))

\* out = {"_raw_text": text}
InitOut(t) == Put(EmptyMap, RawTextKey, StrVal(t))

\* The body of the pattern loop without "if val is None: continue".
StoreField_KeepNone(o, key, val, numeric) ==
  IF val = NoneVal THEN Put(o, key, NoneVal)
  ELSE IF key \in numeric THEN Put(o, key, _to_float(val.s))
  ELSE Put(o, key, val)

\* The body of the pattern loop for one key, val being _grab's result.
StoreField(o, key, val, numeric) ==
  IF val = NoneVal THEN o
  ELSE IF key \in numeric THEN Put(o, key, _to_float(val.s))
  ELSE Put(o, key, val)

\* out["model"] = out["model"][:60], without the strip
FixModel_NoStrip(o) ==
  IF "model" \in DOMAIN o /\ o["model"].kind = "str" /\ o["model"].s # ""
     /\ Len(o["model"].s) > ModelMaxLen
  THEN Put(o, "model", StrVal(SubSeq(o["model"].s, 1, ModelMaxLen)))
  ELSE o

\* the loop with "break" where the code has "continue"
RECURSIVE RunPatterns_BreakOnMiss(_, _, _, _, _)
RunPatterns_BreakOnMiss(tab, i, o, s, numeric) ==
  IF i > Len(tab) THEN o
  ELSE LET val == _grab(s, tab[i].pat)
       IN IF val = NoneVal THEN o
          ELSE RunPatterns_BreakOnMiss(tab, i + 1,
                                       StoreField(o, tab[i].key, val, numeric),
                                       s, numeric)

\* for key, pat in tab.items() from entry i on, over text s: acc[k] is the
\* mapping after the iteration for entry k
RunPatterns(tab, i, o, s, numeric) ==
  LET acc[k \in (i - 1)..Len(tab)] ==
        IF k = i - 1 THEN o
        ELSE StoreField(acc[k - 1], tab[k].key, _grab(s, tab[k].pat), numeric)
  IN acc[Len(tab)]

\* if out.get("model") and len(out["model"]) > 60: out["model"] = out["model"][:60].strip()
FixModel(o) ==
  IF "model" \in DOMAIN o /\ o["model"].kind = "str" /\ o["model"].s # ""
     /\ Len(o["model"].s) > ModelMaxLen
  THEN Put(o, "model", StrVal(Strip(SubSeq(o["model"].s, 1, ModelMaxLen))))
  ELSE o

(***************************************************************************)
(* The pattern table in force.  The module's table is LABEL_PATTERNS; the  *)
(* source invites adding entries ("you can add patterns to                 *)
(* LABEL_PATTERNS"), and AddedField is such an entry, a numeric field      *)
(* whose capture is free text, in force only where ext holds.              *)
(***************************************************************************)
AddedKey == "min_ambient_c"

AddedField == [key |-> AddedKey, pat |-> LabelText("Minimum ambient")]

ExtendedPatterns == LABEL_PATTERNS \o <<AddedField>>

Table(e) == IF e THEN ExtendedPatterns ELSE LABEL_PATTERNS

Numeric(e) == IF e THEN NumericKeys \cup {AddedKey} ELSE NumericKeys

(***************************************************************************)
(* Input documents                                                         *)
(***************************************************************************)
MaxPages == 3

NoText == [none |-> TRUE, s |-> ""]

Page(s) == [none |-> FALSE, s |-> s]

\* a model designation of 65 characters whose 60th character is a space
LongModel == "RTAF-205-HSE-XPG-400V-50HZ-R134A-LOW-NOISE-EC-FANS-PUMP-KIT OPT-A"

\* What a page may yield: nothing, an empty text, a blank text, or lines of a
\* selection report.
PageTexts ==
  { NoText,
    Page(""),
    Page(" \n "),
    Page("Net capacity 123.4 kW\nGross EER 3.60 EER\nMax amps 95 A"),
    Page("77 kW\nMaximum running current 120.5 A\nNet capacity 1,234.5 kW\n"
         \o "Refrigerant GWP 1,430\nRange  "),
    Page("Model " \o LongModel \o "\nStart-up current 300 A\nCurrent 80 A\n"
         \o "NET CAPACITY"),
    Page("Chiller model RTAF 205\nModel RTAF\n"
         \o "Outdoor air dry bulb temperature -5 C\nMinimum ambient n/a") }

OpenErrors == {"PDFSyntaxError", "PSEOF"}

PageSeqs == UNION {[1..n -> PageTexts] : n \in 0..MaxPages}

Files ==
  {[ok |-> TRUE, error |-> "", pages |-> ps] : ps \in PageSeqs}
  \cup {[ok |-> FALSE, error |-> e, pages |-> <<>>] : e \in OpenErrors}

NotReturned == [returned |-> FALSE, value |-> EmptyMap]

(***************************************************************************)
(* extract_specs_from_pdf as a state machine                               *)
(***************************************************************************)
Start(e) ==
  /\ file \in Files
  /\ ext = e
  /\ pc = "open"
  /\ pn = 1
  /\ text_parts = <<>>
  /\ text = ""
  /\ out = EmptyMap
  /\ err = ""
  /\ ret = NotReturned
  /\ OthersIdle

Init == Start(FALSE)

InitExt == Start(TRUE)

\* an open whose failure is caught, the function going on with no pages
Open_Swallow ==
  /\ pc = "open"
  /\ pc' = "pages"
  /\ pn' = IF file.ok THEN pn ELSE Len(file.pages) + 1
  /\ UNCHANGED <<file, ext, text_parts, text, out, err, ret>>
  /\ UNCHANGED otherVars

\* with pdfplumber.open(io.BytesIO(pdf_bytes)) as pdf: no handler surrounds it
Open ==
  /\ pc = "open"
  /\ IF file.ok
     THEN pc' = "pages" /\ err' = err
     ELSE pc' = "raised" /\ err' = file.error
  /\ UNCHANGED <<file, ext, pn, text_parts, text, out, ret>>
  /\ UNCHANGED otherVars

\* one iteration of: for page in pdf.pages
PageStep ==
  /\ pc = "pages"
  /\ pn <= Len(file.pages)
  /\ text_parts' = AppendPage(text_parts, PageText(file.pages[pn]))
  /\ pn' = pn + 1
  /\ UNCHANGED <<file, ext, pc, text, out, err, ret>>
  /\ UNCHANGED otherVars

\* text = "\n".join(text_parts); out = {"_raw_text": text}
Join ==
  /\ pc = "pages"
  /\ pn > Len(file.pages)
  /\ text' = JoinParts(text_parts)
  /\ out' = InitOut(text')
  /\ pc' = "patterns"
  /\ UNCHANGED <<file, ext, pn, text_parts, err, ret>>
  /\ UNCHANGED otherVars

\* for key, pat in LABEL_PATTERNS.items(): the whole loop
PatternLoop ==
  /\ pc = "patterns"
  /\ out' = RunPatterns(Table(ext), 1, out, text, Numeric(ext))
  /\ pc' = "fix"
  /\ UNCHANGED <<file, ext, pn, text_parts, text, err, ret>>
  /\ UNCHANGED otherVars

\* the "model" correction after the loop
ModelStep ==
  /\ pc = "fix"
  /\ out' = FixModel(out)
  /\ pc' = "return"
  /\ UNCHANGED <<file, ext, pn, text_parts, text, err, ret>>
  /\ UNCHANGED otherVars

\* a return that tags the result with the name of the document
Return_WithFileName ==
  /\ pc = "return"
  /\ ret' = [returned |-> TRUE, value |-> Put(out, "_file_name", StrVal("datasheet.pdf"))]
  /\ pc' = "done"
  /\ UNCHANGED <<file, ext, pn, text_parts, text, out, err>>
  /\ UNCHANGED otherVars

\* return out
Return ==
  /\ pc = "return"
  /\ ret' = [returned |-> TRUE, value |-> out]
  /\ pc' = "done"
  /\ UNCHANGED <<file, ext, pn, text_parts, text, out, err>>
  /\ UNCHANGED otherVars

Next == Open \/ PageStep \/ Join \/ PatternLoop \/ ModelStep \/ Return

Spec == Init /\ [][Next]_vars

SpecExt == InitExt /\ [][Next]_vars

(***************************************************************************)
(* Properties                                                              *)
(***************************************************************************)
\* the pattern loop has run over the whole table, the model correction not yet
LoopDone == pc = "fix"

\* text has been joined
Joined == pc \in {"patterns", "fix", "return", "done"}

MinOf(S) == CHOOSE x \in S : \A y \in S : x <= y

\* what the loop stores for captured text s under key
Coerced(key, s) == IF key \in NumericKeys THEN _to_float(s) ELSE StrVal(s)

TypeCorrect(map) ==
  \A k \in LabelKeys :
    k \in DOMAIN map =>
      IF k \in NumericKeys THEN map[k].kind = "float"
      ELSE map[k].kind = "str" /\ map[k].s # "" /\ Strip(map[k].s) = map[k].s

\* C1: every key of LABEL_PATTERNS is either absent from the result or mapped
\* to a value of its class: a float for a numeric key, a non-empty trimmed
\* string for a text key; never None, never "".
C1_AbsenceInvariant == TypeCorrect(out) /\ TypeCorrect(ret.value)

\* a result where "range" matched on blank text and is absent, next to a text
\* field and a numeric field that are present
C1_Witness ==
  /\ ret.returned
  /\ SearchIC(PatternOf("range"), text).found
  /\ "range" \notin DOMAIN ret.value
  /\ "model" \in DOMAIN ret.value
  /\ "net_capacity_kw" \in DOMAIN ret.value

\* \d{1,3},\d{3}(\.\d+)?: a number written with a thousands separator
GroupedNumber ==
  Cat(<<Rep(DIGIT, 1, 3, TRUE), Lit(","), Rep(DIGIT, 3, 3, TRUE),
        Opt(Cat(<<Lit("."), Plus(DIGIT)>>))>>)

ThousandsFields ==
  { [key |-> "net_capacity_kw", label |-> "Net capacity"],
    [key |-> "refrigerant_gwp", label |-> "Refrigerant GWP"] }

\* C2: where the first occurrence of a numeric field's label is followed by a
\* number written with thousands-separator commas, the result holds the field
\* with the full number (the commas removed), not a prefix of it, not absent.
C2_ThousandsSeparators ==
  ret.returned =>
    \A f \in ThousandsFields :
      LET m == SearchIC(Cat(<<LitIC(f.label), Plus(WS), Grp(1, GroupedNumber)>>), text)
      IN (m.found /\ SearchIC(LitIC(f.label), text).start = m.start) =>
           /\ f.key \in DOMAIN ret.value
           /\ ret.value[f.key] = _to_float(GroupText(m, text, 1))

\* C3: for every numeric field, one added to the table later included, a
\* pattern match whose captured text holds no number leaves the key out of
\* the result: it is not stored as None.
C3_MalformedNumericAbsent ==
  LoopDone =>
    \A i \in 1..Len(Table(ext)) :
      LET e == Table(ext)[i]
          val == _grab(text, e.pat)
      IN (e.key \in Numeric(ext) /\ val # NoneVal
          /\ ~Search(FloatPattern, RemoveCommas(val.s)).found) =>
           e.key \notin DOMAIN out

\* the entries whose pattern is an alternation of capture groups
AlternativeEntries ==
  {i \in 1..Len(LABEL_PATTERNS) : LABEL_PATTERNS[i].pat.t = "alt"}

\* the groups of match m that took part and are not blank
SolidGroups(m, s) ==
  {g \in 1..MaxGroups : m.caps[g] # NoGroup /\ Strip(GroupText(m, s, g)) # ""}

\* C4: for a pattern with alternative capture groups, the value stored is the
\* trimmed text of the lowest-numbered group that took part in the match and
\* is not blank; when only the second alternative matched, it is that
\* alternative's value.
C4_AlternativeSelection ==
  LoopDone =>
    \A i \in AlternativeEntries :
      LET e == LABEL_PATTERNS[i]
          m == SearchIC(e.pat, text)
          solid == SolidGroups(m, text)
      IN m.found =>
           IF solid = {} THEN e.key \notin DOMAIN out
           ELSE /\ e.key \in DOMAIN out
                /\ out[e.key] = Coerced(e.key, Strip(GroupText(m, text, MinOf(solid))))

\* only "Maximum running current" matched, and max_amps_a is its 120.5
C4_Witness ==
  /\ LoopDone
  /\ LET m == SearchIC(PatternOf("max_amps_a"), text)
     IN m.found /\ m.caps[1] = NoGroup /\ m.caps[3] # NoGroup
  /\ "max_amps_a" \in DOMAIN out
  /\ out["max_amps_a"] = FloatVal(1205, 1)

\* the value a key gets from the match r of its pattern on text s
ValueOfMatch(key, r, s) ==
  LET g == FirstGroup([found |-> TRUE, start |-> 0, end |-> r.pos,
                       caps |-> r.caps, last |-> r.last], s, 1)
  IN IF g = NoneVal THEN NoneVal ELSE Coerced(key, g.s)

\* C5: the value of every field in the result comes from the match, compared
\* case-insensitively over the whole joined text, that starts earliest: no
\* match of the field's pattern starts before it.
C5_FirstMatchWins ==
  LoopDone =>
    \A k \in (DOMAIN out) \ {RawTextKey} :
      LET cs == Fold(text)
          pat == PatternOf(k)
      IN \E p \in 1..(Len(cs) + 1) :
           /\ MatchesAt(pat, cs, p) # <<>>
           /\ \A j \in 1..(p - 1) : MatchesAt(pat, cs, j) = <<>>
           /\ out[k] = ValueOfMatch(k, MatchesAt(pat, cs, p)[1], text)

\* a text of two pages with two matches of one pattern that give different
\* values, and a match that spans the page boundary in upper case
C5_Witness ==
  /\ LoopDone
  /\ Len(text_parts) = 3
  /\ "max_amps_a" \in DOMAIN out
  /\ LET cs == Fold(text)
         pat == PatternOf("max_amps_a")
     IN \E q \in 1..(Len(cs) + 1) :
          /\ MatchesAt(pat, cs, q) # <<>>
          /\ ValueOfMatch("max_amps_a", MatchesAt(pat, cs, q)[1], text)
               # out["max_amps_a"]
  /\ "net_capacity_kw" \in DOMAIN out
  /\ LET m == SearchIC(PatternOf("net_capacity_kw"), text)
     IN m.start <= Len(text_parts[1]) /\ m.end > Len(text_parts[1]) + 2

\* the entries of LABEL_PATTERNS other than entry k
TableWithout(k) == {i \in 1..Len(LABEL_PATTERNS) : i # k}

\* the result for text s of a table made of the entries idx of LABEL_PATTERNS,
\* vals[i] being the value entry i stores, NoneVal where it captures nothing
ResultOf(idx, vals, s) ==
  [key \in {RawTextKey} \cup {LABEL_PATTERNS[i].key : i \in {j \in idx : vals[j] # NoneVal}} |->
     IF key = RawTextKey THEN StrVal(s)
     ELSE vals[CHOOSE i \in idx : LABEL_PATTERNS[i].key = key]]

\* what entry e of the table stores for a match m of its pattern on text s
StoredOf(e, m, s) ==
  IF ~m.found THEN NoneVal
  ELSE LET g == FirstGroup(m, s, 1)
       IN IF g = NoneVal THEN NoneVal ELSE Coerced(e.key, g.s)

\* C6: a pattern that finds no match raises nothing, its key is absent, and
\* the result is what the table without that entry gives.
C6_SilentLocalMiss ==
  /\ pc = "raised" => ~file.ok
  /\ LoopDone =>
       \A ms \in {[i \in 1..Len(LABEL_PATTERNS) |-> SearchIC(LABEL_PATTERNS[i].pat, text)]} :
       \A vals \in {[i \in 1..Len(LABEL_PATTERNS) |-> StoredOf(LABEL_PATTERNS[i], ms[i], text)]} :
         \A k \in 1..Len(LABEL_PATTERNS) :
           ~ms[k].found =>
             /\ LABEL_PATTERNS[k].key \notin DOMAIN out
             /\ out = ResultOf(TableWithout(k), vals, text)

\* "Net capacity 123.4 kW" and "Gross EER 3.60 EER" are extracted, iplv_si,
\* which the text does not hold, is absent
C6_Witness ==
  /\ LoopDone
  /\ ~SearchIC(PatternOf("iplv_si"), text).found
  /\ "iplv_si" \notin DOMAIN out
  /\ "net_capacity_kw" \in DOMAIN out /\ out["net_capacity_kw"] = FloatVal(1234, 1)
  /\ "gross_eer_kw_per_kw" \in DOMAIN out /\ out["gross_eer_kw_per_kw"] = FloatVal(36, 1)

\* C7: a model text longer than 60 characters is returned as its first 60
\* characters, trimmed; one of 60 or fewer unchanged; so a model in the
\* result has 1 to 60 characters.
C7_ModelTruncation ==
  ret.returned =>
    LET g == _grab(text, PatternOf("model"))
    IN IF g = NoneVal THEN "model" \notin DOMAIN ret.value
       ELSE /\ "model" \in DOMAIN ret.value
            /\ ret.value["model"] =
                 StrVal(IF Len(g.s) > 60 THEN Strip(SubSeq(g.s, 1, 60)) ELSE g.s)
            /\ Len(ret.value["model"].s) \in 1..60

\* a model text of more than 60 characters whose cut ends in a space, so that
\* the trimmed result is shorter than 60
C7_Witness ==
  /\ ret.returned
  /\ Len(_grab(text, PatternOf("model")).s) > 60
  /\ "model" \in DOMAIN ret.value
  /\ Len(ret.value["model"].s) = 59

\* the texts the pages yield, in page order
TextsOf(pages) == SubSeq([i \in 1..Len(pages) |-> PageText(pages[i])], 1, Len(pages))

NonEmpty(t) == t # ""

\* t has a character that is not whitespace
HasSolid(t) == \E i \in 1..Len(t) : Char(t, i) \notin SpaceChars

RECURSIVE LenThrough(_, _)
\* the length of parts[1..i] with a separator after each of them
LenThrough(parts, i) ==
  IF i = 0 THEN 0 ELSE LenThrough(parts, i - 1) + Len(parts[i]) + 1

\* t is parts in order, each unmodified, with exactly one "\n" between
\* neighbours and nothing else
IsJoin(parts, t) ==
  /\ Len(t) = IF Len(parts) = 0 THEN 0 ELSE LenThrough(parts, Len(parts)) - 1
  /\ \A i \in 1..Len(parts) :
       LET from == LenThrough(parts, i - 1) + 1
           to == from + Len(parts[i]) - 1
       IN /\ SubSeq(t, from, to) = parts[i]
          /\ i < Len(parts) => Char(t, to + 1) = "\n"

\* C8 as stated: the joined text is the texts of the pages that yield
\* non-empty text, in page order, each unmodified, separated by exactly one
\* newline; pages that yield empty or no text contribute nothing.
C8_PageJoin ==
  Joined => IsJoin(SelectSeq(TextsOf(file.pages), NonEmpty), text)

\* C8 amended: the joined text is the texts of the pages whose text has a
\* character that is not whitespace, in page order, each unmodified,
\* separated by exactly one newline; a page that yields no text, empty text
\* or only whitespace contributes nothing.
C8_PageJoinSolid ==
  Joined => IsJoin(SelectSeq(TextsOf(file.pages), HasSolid), text)

\* three pages of which the second yields only whitespace: the joined text
\* is the first, a newline, the third
C8_Witness ==
  /\ Joined
  /\ Len(file.pages) = 3
  /\ LET t == TextsOf(file.pages)
     IN /\ HasSolid(t[1]) /\ HasSolid(t[3]) /\ t[1] # t[3]
        /\ t[2] # "" /\ ~HasSolid(t[2])
        /\ text = t[1] \o "\n" \o t[3]

\* C9: from the join on, and in every result returned, "_raw_text" is
\* present and is exactly the joined text the patterns are matched against
\* (the empty string for a document without text); neither the coercions of
\* the loop nor the model truncation change it.
C9_RawTextRetention ==
  /\ Joined =>
       /\ text = JoinParts(text_parts)
       /\ RawTextKey \in DOMAIN out
       /\ out[RawTextKey] = StrVal(text)
  /\ ret.returned =>
       /\ RawTextKey \in DOMAIN ret.value
       /\ ret.value[RawTextKey] = StrVal(text)

\* a document with pages and no text: the result holds "_raw_text", the
\* empty string, and nothing else
C9_Witness ==
  /\ ret.returned
  /\ Len(file.pages) > 0
  /\ text = ""
  /\ DOMAIN ret.value = {RawTextKey}
  /\ ret.value[RawTextKey] = StrVal("")

\* C10: for bytes that cannot be opened as a PDF the function ends in the
\* error the open raised (the error kind the specification calls
\* DocumentUnreadable), handed unchanged to the caller; it never gets past the
\* open, builds no mapping and returns no result.
C10_UnreadableInput ==
  ~file.ok =>
    /\ pc \in {"open", "raised"}
    /\ pc = "raised" => err = file.error /\ err \in OpenErrors
    /\ out = EmptyMap
    /\ ~ret.returned

\* the open has failed and its error is with the caller
C10_Witness ==
  /\ ~file.ok
  /\ pc = "raised"
  /\ err = "PDFSyntaxError"
  /\ out = EmptyMap
  /\ ~ret.returned

(***************************************************************************)
(* Several calls of extract_specs_from_pdf in one process, their           *)
(* statements interleaved.  A call's locals live in its frame; the only    *)
(* object the calls have in common is the module's LABEL_PATTERNS.         *)
(***************************************************************************)
\* the extraction variables where a specification does not use them
ExtractIdle ==
  /\ file = [ok |-> TRUE, error |-> "", pages |-> <<>>]
  /\ ext = FALSE
  /\ pc = "unused"
  /\ pn = 1
  /\ text_parts = <<>>
  /\ text = ""
  /\ out = EmptyMap
  /\ err = ""
  /\ ret = NotReturned

CallIds == {1, 2}

MaxCalls == 3

CallFiles ==
  { [ok |-> FALSE, error |-> "PDFSyntaxError", pages |-> <<>>],
    [ok |-> TRUE, error |-> "", pages |-> <<NoText>>],
    [ok |-> TRUE, error |-> "", pages |-> <<Page("Net capacity 123.4 kW")>>],
    [ok |-> TRUE, error |-> "",
     pages |-> <<Page("Model RTAF 205"), Page("Net capacity 88 kW\nMax amps 95 A")>>] }

\* the frame of a call of extract_specs_from_pdf(f); overlap: another call
\* was in progress at some time during this one
Frame(f, position, o) ==
  [file |-> f, pc |-> position, pn |-> 1, text_parts |-> <<>>, text |-> "",
   out |-> EmptyMap, err |-> "", ret |-> NotReturned, overlap |-> o]

NoCall == Frame([ok |-> TRUE, error |-> "", pages |-> <<>>], "idle", FALSE)

InProgress(fr) == fr.pc \notin {"idle", "done", "raised"}

\* what a call handed to its caller
Outcome(fr) == [file |-> fr.file, err |-> fr.err, value |-> fr.ret.value]

InitCalls ==
  /\ ExtractIdle
  /\ OpexIdle
  /\ ReuseIdle
  /\ PhotosIdle
  /\ ReportIdle
  /\ calls = [c \in CallIds |-> NoCall]
  /\ table = LABEL_PATTERNS
  /\ returned = {}
  /\ started = 0

\* the caller calls extract_specs_from_pdf(f)
CallStart(c) ==
  /\ ~InProgress(calls[c])
  /\ started < MaxCalls
  /\ \E f \in CallFiles :
       calls' = [d \in CallIds |->
                   IF d = c THEN Frame(f, "open", \E x \in CallIds : InProgress(calls[x]))
                   ELSE IF InProgress(calls[d]) THEN [calls[d] EXCEPT !.overlap = TRUE]
                   ELSE calls[d]]
  /\ started' = started + 1
  /\ UNCHANGED <<table, returned>>
  /\ UNCHANGED besideCalls

\* with pdfplumber.open(io.BytesIO(pdf_bytes)) as pdf
CallOpen(c) ==
  /\ calls[c].pc = "open"
  /\ IF calls[c].file.ok
     THEN /\ calls' = [calls EXCEPT ![c].pc = "pages"]
          /\ returned' = returned
     ELSE /\ calls' = [calls EXCEPT ![c].pc = "raised", ![c].err = calls[c].file.error]
          /\ returned' = returned \cup {Outcome(calls'[c])}
  /\ UNCHANGED <<table, started>>
  /\ UNCHANGED besideCalls

\* one iteration of: for page in pdf.pages
CallPage(c) ==
  /\ calls[c].pc = "pages"
  /\ calls[c].pn <= Len(calls[c].file.pages)
  /\ calls' = [calls EXCEPT
                 ![c].text_parts = AppendPage(@, PageText(calls[c].file.pages[calls[c].pn])),
                 ![c].pn = @ + 1]
  /\ UNCHANGED <<table, returned, started>>
  /\ UNCHANGED besideCalls

\* a join over the pages every call in progress has collected, as if
\* text_parts were one list of the module
CallJoin_SharedParts(c) ==
  /\ calls[c].pc = "pages"
  /\ calls[c].pn > Len(calls[c].file.pages)
  /\ LET t == JoinParts(calls[1].text_parts \o calls[2].text_parts)
     IN calls' = [calls EXCEPT ![c].text = t, ![c].out = InitOut(t),
                               ![c].pc = "patterns"]
  /\ UNCHANGED <<table, returned, started>>
  /\ UNCHANGED besideCalls

\* text = "\n".join(text_parts); out = {"_raw_text": text}
CallJoin(c) ==
  /\ calls[c].pc = "pages"
  /\ calls[c].pn > Len(calls[c].file.pages)
  /\ LET t == JoinParts(calls[c].text_parts)
     IN calls' = [calls EXCEPT ![c].text = t, ![c].out = InitOut(t),
                               ![c].pc = "patterns"]
  /\ UNCHANGED <<table, returned, started>>
  /\ UNCHANGED besideCalls

\* a loop that takes every pattern it has matched out of LABEL_PATTERNS
CallPatterns_Consume(c) ==
  /\ calls[c].pc = "patterns"
  /\ LET o == RunPatterns(table, 1, calls[c].out, calls[c].text, NumericKeys)
     IN /\ calls' = [calls EXCEPT ![c].out = o, ![c].pc = "fix"]
        /\ table' = SelectSeq(table, LAMBDA e : e.key \notin DOMAIN o)
  /\ UNCHANGED <<returned, started>>
  /\ UNCHANGED besideCalls

\* for key, pat in LABEL_PATTERNS.items(): the whole loop; it reads the table
CallPatterns(c) ==
  /\ calls[c].pc = "patterns"
  /\ calls' = [calls EXCEPT
                 ![c].out = RunPatterns(table, 1, calls[c].out, calls[c].text, NumericKeys),
                 ![c].pc = "fix"]
  /\ UNCHANGED <<table, returned, started>>
  /\ UNCHANGED besideCalls

\* the "model" correction after the loop
CallFix(c) ==
  /\ calls[c].pc = "fix"
  /\ calls' = [calls EXCEPT ![c].out = FixModel(@), ![c].pc = "return"]
  /\ UNCHANGED <<table, returned, started>>
  /\ UNCHANGED besideCalls

\* return out
CallReturn(c) ==
  /\ calls[c].pc = "return"
  /\ calls' = [calls EXCEPT ![c].ret = [returned |-> TRUE, value |-> calls[c].out],
                            ![c].pc = "done"]
  /\ returned' = returned \cup {Outcome(calls'[c])}
  /\ UNCHANGED <<table, started>>
  /\ UNCHANGED besideCalls

NextCalls ==
  \E c \in CallIds :
    \/ CallStart(c)
    \/ CallOpen(c)
    \/ CallPage(c)
    \/ CallJoin(c)
    \/ CallPatterns(c)
    \/ CallFix(c)
    \/ CallReturn(c)

SpecCalls == InitCalls /\ [][NextCalls]_allVars

\* C11: two extractions of the same document hand back the same outcome, the
\* same mapping key for key with the same "_raw_text" (or the same error),
\* whatever other documents were extracted before or between them.
C11_Determinism ==
  /\ \A a, b \in returned : a.file = b.file => a = b
  /\ \A c \in CallIds : ~InProgress(calls[c]) /\ calls[c].pc # "idle" =>
       Outcome(calls[c]) \in returned

\* the same document extracted twice with the same result, which holds a
\* field, a third extraction of another document having returned as well
C11_Witness ==
  /\ calls[1].pc = "done" /\ calls[2].pc = "done"
  /\ calls[1].file = calls[2].file
  /\ calls[1].ret = calls[2].ret
  /\ "net_capacity_kw" \in DOMAIN calls[1].ret.value
  /\ started = 3
  /\ \E r \in returned : r.file # calls[1].file /\ r.file.ok /\ Len(r.file.pages) = 2

\* -?\d+(\.\d+)?: a signed decimal number
SignedNumber ==
  Cat(<<Opt(Lit("-")), Plus(DIGIT), Opt(Cat(<<Lit("."), Plus(DIGIT)>>))>>)

\* the temperatures of the project conditions, label and unit
SignedFields ==
  { [key |-> "design_ambient_c", label |-> "Outdoor air dry bulb temperature", unit |-> "C"],
    [key |-> "ewt_c", label |-> "Fluid entering temperature", unit |-> "C"],
    [key |-> "lwt_c", label |-> "Fluid leaving temperature", unit |-> "C"] }

\* C12: where the first occurrence of a numeric field's label is followed by a
\* signed decimal number (an optional "-", digits, an optional fraction) and
\* the unit, the result holds the field with that number, sign included:
\* "Outdoor air dry bulb temperature -5 C" gives design_ambient_c = -5.0.
C12_SignedNumeric ==
  ret.returned =>
    \A f \in SignedFields :
      LET m == SearchIC(Cat(<<LitIC(f.label), Plus(WS), Grp(1, SignedNumber),
                              Star(WS), LitIC(f.unit)>>), text)
      IN (m.found /\ SearchIC(LitIC(f.label), text).start = m.start) =>
           /\ f.key \in DOMAIN ret.value
           /\ ret.value[f.key] = _to_float(GroupText(m, text, 1))

(***************************************************************************)
(* One-page documents that print one numeric field: its label, whitespace, *)
(* an unsigned decimal number and its unit, after some other text or none. *)
(***************************************************************************)
\* the numeric fields: key, the label the value is printed after, the unit
\* printed after the value ("" where the datasheet prints none)
LabelledFields ==
  { [key |-> "design_ambient_c", label |-> "Outdoor air dry bulb temperature", unit |-> "C"],
    [key |-> "ewt_c", label |-> "Fluid entering temperature", unit |-> "C"],
    [key |-> "lwt_c", label |-> "Fluid leaving temperature", unit |-> "C"],
    [key |-> "antifreeze_pct", label |-> "Fluid Type and concentration", unit |-> "%"],
    [key |-> "elevation_m", label |-> "Elevation", unit |-> "m"],
    [key |-> "gross_capacity_kw", label |-> "Gross capacity", unit |-> "kW"],
    [key |-> "net_capacity_kw", label |-> "Net capacity", unit |-> "kW"],
    [key |-> "power_kw", label |-> "Gross unit power", unit |-> "kW"],
    [key |-> "power_kw", label |-> "Total absorbed power", unit |-> "kW"],
    [key |-> "gross_eer_kw_per_kw", label |-> "Gross EER", unit |-> "EER"],
    [key |-> "net_eer_kw_per_kw", label |-> "Net EER", unit |-> "EER"],
    [key |-> "design_flow_ls", label |-> "Design flow rate", unit |-> "L/s"],
    [key |-> "evap_pressure_drop_kpa", label |-> "Evaporator Pressure drop (Design)", unit |-> "kPa"],
    [key |-> "sound_power_dba", label |-> "Outdoor sound power level", unit |-> "dBA"],
    [key |-> "sound_pressure_dba", label |-> "Outdoor sound pressure level", unit |-> "dBA"],
    [key |-> "iplv_si", label |-> "IPLV.SI", unit |-> ""],
    [key |-> "nplv_si", label |-> "NPLV.SI", unit |-> ""],
    [key |-> "running_current_a", label |-> "Current", unit |-> "A"],
    [key |-> "startup_current_a", label |-> "Start-up current", unit |-> "A"],
    [key |-> "max_amps_a", label |-> "Max amps", unit |-> "A"],
    [key |-> "max_amps_a", label |-> "Maximum running current", unit |-> "A"],
    [key |-> "max_power_kw", label |-> "Maximum power at maximum current", unit |-> "kW"],
    [key |-> "cos_phi", label |-> "Displacement power factor (cos-phi)", unit |-> ""],
    [key |-> "length_mm", label |-> "Length", unit |-> "mm"],
    [key |-> "width_mm", label |-> "Width", unit |-> "mm"],
    [key |-> "height_mm", label |-> "Height", unit |-> "mm"],
    [key |-> "shipping_weight_kg", label |-> "Unit shipping weight", unit |-> "kg"],
    [key |-> "shipping_weight_kg", label |-> "Shipping weight including packaging", unit |-> "kg"],
    [key |-> "operating_weight_kg", label |-> "Operating weight", unit |-> "kg"],
    [key |-> "refrigerant_gwp", label |-> "Refrigerant GWP", unit |-> ""] }

LabelGaps == {" ", "\n", "\n  ", " \t"}

UnitGaps == {"", " "}

Numbers == {"7", "123.4", "3.60"}

Leads == {"", "Product Report\n"}

\* the text that prints field f
Printed(f, lead, gap, n, ugap) == lead \o f.label \o gap \o n \o ugap \o f.unit

LabelledTexts ==
  {Printed(f, lead, gap, n, ugap) :
     f \in LabelledFields, lead \in Leads, gap \in LabelGaps, n \in Numbers,
     ugap \in UnitGaps}
  \cup {"Net capacity 123.4 kW\nGross EER 3.60 EER"}

LabelledFiles ==
  {[ok |-> TRUE, error |-> "", pages |-> <<Page(t)>>] : t \in LabelledTexts}

InitLabelled ==
  /\ file \in LabelledFiles
  /\ ext = FALSE
  /\ pc = "open"
  /\ pn = 1
  /\ text_parts = <<>>
  /\ text = ""
  /\ out = EmptyMap
  /\ err = ""
  /\ ret = NotReturned
  /\ OthersIdle

SpecLabelled == InitLabelled /\ [][Next]_vars

\* digits, then optionally "." and digits
UnsignedNumber == Cat(<<Plus(DIGIT), Opt(Cat(<<Lit("."), Plus(DIGIT)>>))>>)

\* the label of f, whitespace, an unsigned number, the unit of f
Labelled(f) ==
  Cat(<<LitIC(f.label), Plus(WS), Grp(1, UnsignedNumber), Star(WS), LitIC(f.unit)>>)

\* the result maps the key of f to the number printed at p, for every place p
\* that prints f with no match of the pattern of f beginning before p
ExtractsLabelled(f) ==
  \A cs \in {Fold(text)} :
    \A p \in MatchStarts(Labelled(f), cs) :
      (\A q \in MatchStarts(PatternOf(f.key), cs) : q >= p) =>
        LET m == MatchesAt(Labelled(f), cs, p)[1]
        IN /\ f.key \in DOMAIN ret.value
           /\ ret.value[f.key] = ParseFloat(SubSeq(text, m.caps[1][1], m.caps[1][2] - 1))

\* C13 as stated: for each numeric field, a text that holds the field's label,
\* whitespace, an unsigned decimal number and the field's unit, with no
\* earlier match of the field's pattern, gives a result that maps the field's
\* key to that number as a float.
C13_LabelledValue ==
  ret.returned => \A f \in LabelledFields : ExtractsLabelled(f)

\* the fields whose pattern lets other text stand between label and number
GapFields == {"sound_power_dba", "sound_pressure_dba"}

\* the label of f is followed at p by whitespace whose characters before the
\* last hold no line break
OneLineGap(f, cs, p) ==
  \A i \in (p + Len(f.label))..Len(cs) :
    (cs[i] = "\n" /\ \A j \in (p + Len(f.label))..i : cs[j] \in SpaceChars) =>
      (i = Len(cs) \/ cs[i + 1] \notin SpaceChars)

ExtractsLabelledOneLine(f) ==
  \A cs \in {Fold(text)} :
    \A p \in MatchStarts(Labelled(f), cs) :
      ((\A q \in MatchStarts(PatternOf(f.key), cs) : q >= p) /\ OneLineGap(f, cs, p)) =>
        LET m == MatchesAt(Labelled(f), cs, p)[1]
        IN /\ f.key \in DOMAIN ret.value
           /\ ret.value[f.key] = ParseFloat(SubSeq(text, m.caps[1][1], m.caps[1][2] - 1))

\* C13, amended: the same for each numeric field but antifreeze_pct, whose
\* number stands after a "/" and not after the label; for the two sound
\* levels only where the whitespace after the label holds no line break
\* before its last character.
C13_LabelledValuePlain ==
  ret.returned =>
    \A f \in LabelledFields :
      IF f.key = "antifreeze_pct" THEN TRUE
      ELSE IF f.key \in GapFields THEN ExtractsLabelledOneLine(f)
      ELSE ExtractsLabelled(f)

C13_Witness ==
  /\ ret.returned
  /\ text = "Net capacity 123.4 kW\nGross EER 3.60 EER"
  /\ "net_capacity_kw" \in DOMAIN ret.value
  /\ ret.value["net_capacity_kw"] = FloatVal(1234, 1)
  /\ "gross_eer_kw_per_kw" \in DOMAIN ret.value
  /\ ret.value["gross_eer_kw_per_kw"] = FloatVal(36, 1)

\* what extract_specs_from_pdf(f) hands to its caller when no other call runs
Alone(f) ==
  IF ~f.ok THEN [file |-> f, err |-> f.error, value |-> EmptyMap]
  ELSE LET parts[k \in 0..Len(f.pages)] ==
             IF k = 0 THEN <<>>
             ELSE AppendPage(parts[k - 1], PageText(f.pages[k]))
           t == JoinParts(parts[Len(f.pages)])
       IN [file |-> f, err |-> "",
           value |-> FixModel(RunPatterns(LABEL_PATTERNS, 1, InitOut(t), t, NumericKeys))]

\* C14: however the steps of two extractions on separate inputs interleave,
\* each call hands its caller what it hands when run alone, and the pattern
\* table is the same before and after every call.
C14_IndependentCalls ==
  /\ table = LABEL_PATTERNS
  /\ \A c \in CallIds :
       calls[c].pc \in {"done", "raised"} => Outcome(calls[c]) = Alone(calls[c].file)

\* two calls on different documents, each begun or ended while the other was
\* in progress, both returned with text read
C14_Witness ==
  /\ calls[1].pc = "done" /\ calls[2].pc = "done"
  /\ calls[1].overlap /\ calls[2].overlap
  /\ calls[1].file # calls[2].file
  /\ calls[1].text # "" /\ calls[2].text # ""

\* C15: the keys of every extraction result are keys of LABEL_PATTERNS or
\* the reserved key "_raw_text"; the result holds no document identifier
\* ("_file_name") and no other key.
C15_ResultKeySet ==
  /\ DOMAIN out \subseteq LabelKeys \cup {RawTextKey}
  /\ ret.returned =>
       /\ DOMAIN ret.value \subseteq LabelKeys \cup {RawTextKey}
       /\ "_file_name" \notin DOMAIN ret.value

\* a returned result that holds the raw text and three extracted fields
C15_Witness ==
  /\ ret.returned
  /\ RawTextKey \in DOMAIN ret.value
  /\ Cardinality(DOMAIN ret.value \cap LabelKeys) >= 3

(***************************************************************************)
(* extract_specs_from_pdf called again and again on one object.  The       *)
(* argument is a bytes object or a file object; a file object has a read   *)
(* position, at the start or at the end of its bytes when the caller hands *)
(* it over, and a seek that works, raises, or is missing.                  *)
(***************************************************************************)
MaxReuse == 3

ObjectKinds == {"bytes", "seekable", "seek_raises", "no_seek"}

\* the bytes of document d, and b""
Bytes(d) == [empty |-> FALSE, doc |-> d]

NoBytes == [empty |-> TRUE, doc |-> [ok |-> TRUE, error |-> "", pages |-> <<>>]]

Objects ==
  {[kind |-> k, handed |-> p, pos |-> p, doc |-> d] :
     k \in ObjectKinds \ {"bytes"}, p \in {"start", "end"}, d \in CallFiles}
  \cup {[kind |-> "bytes", handed |-> "start", pos |-> "start", doc |-> d] : d \in CallFiles}

InitReuse ==
  /\ ExtractIdle
  /\ OpexIdle
  /\ CallsIdle
  /\ PhotosIdle
  /\ ReportIdle
  /\ fobj \in Objects
  /\ pdf_bytes = NoBytes
  /\ rpc = "idle"
  /\ outcomes = <<>>

\* pdf_bytes = file.read() if hasattr(file, "read") else file
ReuseRead ==
  /\ rpc = "idle"
  /\ Len(outcomes) < MaxReuse
  /\ IF fobj.kind = "bytes"
     THEN /\ pdf_bytes' = Bytes(fobj.doc)
          /\ fobj' = fobj
     ELSE /\ pdf_bytes' = IF fobj.pos = "start" THEN Bytes(fobj.doc) ELSE NoBytes
          /\ fobj' = [fobj EXCEPT !.pos = "end"]
  /\ rpc' = "seek"
  /\ UNCHANGED outcomes
  /\ UNCHANGED besideReuse

\* a call that does not rewind the object
ReuseSeek_Skip ==
  /\ rpc = "seek"
  /\ rpc' = "open"
  /\ UNCHANGED <<fobj, pdf_bytes, outcomes>>
  /\ UNCHANGED besideReuse

\* if hasattr(file, "seek"): try: file.seek(0); except Exception: pass
ReuseSeek ==
  /\ rpc = "seek"
  /\ fobj' = IF fobj.kind = "seekable" THEN [fobj EXCEPT !.pos = "start"] ELSE fobj
  /\ rpc' = "open"
  /\ UNCHANGED <<pdf_bytes, outcomes>>
  /\ UNCHANGED besideReuse

\* what the rest of the function makes of pdf_bytes: b"" does not open
Extracted(b) ==
  IF b.empty THEN [bytes |-> b, err |-> "PDFSyntaxError", value |-> EmptyMap]
  ELSE [bytes |-> b, err |-> Alone(b.doc).err, value |-> Alone(b.doc).value]

\* pdfplumber.open(io.BytesIO(pdf_bytes)) to return out, or the error raised
ReuseExtract ==
  /\ rpc = "open"
  /\ outcomes' = Append(outcomes, Extracted(pdf_bytes))
  /\ rpc' = "idle"
  /\ UNCHANGED <<fobj, pdf_bytes>>
  /\ UNCHANGED besideReuse

NextReuse == ReuseRead \/ ReuseSeek \/ ReuseExtract

SpecReuse == InitReuse /\ [][NextReuse]_allVars

\* C16 as stated: after any call the read position of the file object is at
\* the start, and every later call on the object reads the same bytes and
\* returns the same result as the first call.
C16_NoSideEffect ==
  /\ (rpc = "idle" /\ Len(outcomes) > 0 /\ fobj.kind # "bytes") => fobj.pos = "start"
  /\ \A i \in 1..Len(outcomes) : outcomes[i] = outcomes[1]

\* C16, amended: a bytes argument gives every call the same bytes and result.
\* A file object is read from the position it is handed over at.  Where its
\* seek(0) succeeds, its position after every call is the start, and every
\* call but the first reads all its bytes and returns the result of these;
\* so does the first when the object was handed over at its start.  Where it
\* has no seek, or its seek raises, it stays at its end, and every call but
\* the first reads no bytes and ends in the error of the open.
C16_Reuse ==
  /\ (rpc = "idle" /\ Len(outcomes) > 0) =>
       fobj.pos = IF fobj.kind \in {"bytes", "seekable"} THEN "start" ELSE "end"
  /\ \A i \in 1..Len(outcomes) :
       outcomes[i] =
         IF \/ fobj.kind = "bytes"
            \/ i = 1 /\ fobj.handed = "start"
            \/ i > 1 /\ fobj.kind = "seekable"
         THEN Extracted(Bytes(fobj.doc))
         ELSE Extracted(NoBytes)

\* three calls on a file object handed over at its start, whose seek works:
\* all three read the document and return the same fields
C16_Witness ==
  /\ fobj.kind = "seekable" /\ fobj.handed = "start"
  /\ rpc = "idle" /\ fobj.pos = "start"
  /\ Len(outcomes) = MaxReuse
  /\ outcomes[1] = outcomes[MaxReuse]
  /\ ~outcomes[1].bytes.empty
  /\ "net_capacity_kw" \in DOMAIN outcomes[1].value

(***************************************************************************)
(* The photo block of one checklist item in app.py.  Streamlit runs the    *)
(* script again after every interaction; a widget with a key keeps its     *)
(* value from run to run, so the uploader holds its files until the user   *)
(* removes them, across st.rerun() as well.  Files are numbered in the     *)
(* order of upload; photos holds the number of the file whose bytes        *)
(* getvalue() returned.  A state is the state between two interactions.    *)
(***************************************************************************)
MaxUploads == 3

MaxClears == 2

MaxAtOnce == 2

NotRemembered == [present |-> FALSE, files |-> <<>>]

\* lines 633-648 of one run: uploaded_files is up, st.session_state holds rem
\* under state_key (or nothing) and ph under photos_by_item[item_id]
ProcessUploads(up, rem, ph) ==
  LET prev == IF rem.present THEN rem.files ELSE <<>>
      new_files == IF Len(up) > Len(prev) THEN SubSeq(up, Len(prev) + 1, Len(up))
                   ELSE <<>>
  IN [photos |-> ph \o new_files,
      remembered |-> [present |-> TRUE, files |-> up],
      appended |-> new_files]

InitPhotos ==
  /\ ExtractIdle
  /\ OpexIdle
  /\ CallsIdle
  /\ ReuseIdle
  /\ ReportIdle
  /\ uploader = <<>>
  /\ remembered = NotRemembered
  /\ photos = <<>>
  /\ appends = <<>>
  /\ last_added = <<>>
  /\ last_appended = <<>>
  /\ cleared = FALSE
  /\ uploads = 0
  /\ clears = 0

\* the user adds files to the uploader; the script runs
AddFiles ==
  \E n \in 1..MaxAtOnce :
    /\ uploads + n <= MaxUploads
    /\ LET added == [i \in 1..n |-> uploads + i]
           r == ProcessUploads(uploader \o added, remembered, photos)
       IN /\ uploader' = uploader \o added
          /\ remembered' = r.remembered
          /\ photos' = r.photos
          /\ appends' = appends \o r.appended
          /\ last_added' = added
          /\ last_appended' = r.appended
    /\ uploads' = uploads + n
    /\ cleared' = FALSE
    /\ UNCHANGED clears
    /\ UNCHANGED besidePhotos

\* the user takes a file out of the uploader; the script runs
RemoveFile ==
  \E i \in 1..Len(uploader) :
    LET up == SubSeq(uploader, 1, i - 1) \o SubSeq(uploader, i + 1, Len(uploader))
        r == ProcessUploads(up, remembered, photos)
    IN /\ uploader' = up
       /\ remembered' = r.remembered
       /\ photos' = r.photos
       /\ appends' = appends \o r.appended
       /\ last_added' = <<>>
       /\ last_appended' = r.appended
       /\ UNCHANGED <<cleared, uploads, clears>>
       /\ UNCHANGED besidePhotos

\* the user changes another widget; the script runs
Rerun ==
  LET r == ProcessUploads(uploader, remembered, photos)
  IN /\ remembered' = r.remembered
     /\ photos' = r.photos
     /\ appends' = appends \o r.appended
     /\ last_added' = <<>>
     /\ last_appended' = r.appended
     /\ UNCHANGED <<uploader, cleared, uploads, clears>>
     /\ UNCHANGED besidePhotos

\* the user presses "Clear all photos for this item", which is there when
\* photos is not empty: the script runs up to the button, empties photos,
\* deletes state_key and calls st.rerun(); the script runs again
PressClear ==
  /\ photos # <<>>
  /\ clears < MaxClears
  /\ LET r1 == ProcessUploads(uploader, remembered, photos)
         r2 == ProcessUploads(uploader, NotRemembered, <<>>)
     IN /\ r1.photos # <<>>
        /\ remembered' = r2.remembered
        /\ photos' = r2.photos
        /\ appends' = appends \o r1.appended \o r2.appended
        /\ last_added' = <<>>
        /\ last_appended' = r1.appended \o r2.appended
  /\ cleared' = TRUE
  /\ clears' = clears + 1
  /\ UNCHANGED <<uploader, uploads>>
  /\ UNCHANGED besidePhotos

NextPhotos == AddFiles \/ RemoveFile \/ Rerun \/ PressClear

SpecPhotos == InitPhotos /\ [][NextPhotos]_allVars

\* C17: from the press of "Clear all photos for this item", once the rerun
\* it triggers has completed, photos_by_item[item_id] is empty, and it stays
\* empty over further reruns until the user adds a file to the uploader.
C17_ClearPhotos == cleared => photos = <<>>

\* C18: a rerun appends to photos_by_item[item_id] only files the user added
\* to the uploader since the rerun before, and no file is appended that an
\* earlier rerun has appended already.
C18_OnlyNewPhotos ==
  /\ \A i \in 1..Len(last_appended) :
       \E j \in 1..Len(last_added) : last_added[j] = last_appended[i]
  /\ \A i, j \in 1..Len(appends) : appends[i] = appends[j] => i = j

(***************************************************************************)
(* The checklist of app.py: the item loop of the "Create report" tab, and  *)
(* validate_report, compute_summary and the download buttons of the        *)
(* "Preview & export" tab.  st.session_state.results is a dict; it is kept *)
(* as the sequence of its entries in insertion order.  The checklist file  *)
(* is read again on every run, so a run may find other items than the run  *)
(* before; results keeps the entries of items no longer shown.  Item ids   *)
(* are unique in a checklist: two items with one id give two widgets with  *)
(* one key, which Streamlit refuses before the export tab is reached.      *)
(***************************************************************************)
MaxEdits == 3

STATUS_OPTIONS == <<"", "OK", "Not OK", "N/A">>

NoteTexts == {"", " \t", "leak at valve"}

Item(id, label) == [id |-> id, label |-> label]

Section(title, items) == [title |-> title, items |-> items]

Checklists ==
  { <<Section("Compressor", <<Item("oil_level", "Oil level")>>),
      Section("Handover", <<Item("Final_check", "Site left tidy"),
                            Item("closing", "Final status recorded")>>)>>,
    <<Section("Handover", <<Item("restart", "Chiller Returned to Normal Operation"),
                            Item("handback", "Unit returned to customer"),
                            Item("finish", "Finally checked")>>)>>,
    <<Section("Compressor", <<Item("oil_level", "Oil level")>>),
      Section("Controls", <<Item("finish", "Setpoints verified")>>)>> }

\* safe_text(x)
safe_text(x) == Strip(x)

\* sub in s, for sequences of characters
Contains(s, sub) ==
  \E k \in 1..(Len(s) - Len(sub) + 1) : SubSeq(s, k, k + Len(sub) - 1) = sub

RECURSIVE AllItems(_, _)
\* the items of sections k.. in order
AllItems(secs, k) ==
  IF k > Len(secs) THEN <<>> ELSE secs[k].items \o AllItems(secs, k + 1)

\* id_to_label: a key keeps the place of its first insertion and the label
\* of its last
id_to_label(secs) ==
  LET items == AllItems(secs, 1)
      firsts == {k \in 1..Len(items) : \A j \in 1..(k - 1) : items[j].id # items[k].id}
      lastOf(k) == CHOOSE j \in 1..Len(items) :
                     /\ items[j].id = items[k].id
                     /\ \A m \in (j + 1)..Len(items) : items[m].id # items[k].id
      kept == SelectSeq([k \in 1..Len(items) |-> k], LAMBDA k : k \in firsts)
  IN [n \in 1..Len(kept) |-> Item(items[kept[n]].id, items[lastOf(kept[n])].label)]

HasKey(res, id) == \E k \in 1..Len(res) : res[k].id = id

\* (results).get(item_id, {}).get("status", "")
StatusOf(res, id) ==
  IF HasKey(res, id) THEN res[CHOOSE k \in 1..Len(res) : res[k].id = id].status ELSE ""

\* id_to_label.get(item_id, item_id)
LabelOrId(map, id) ==
  IF \E k \in 1..Len(map) : map[k].id = id
  THEN map[CHOOSE k \in 1..Len(map) : map[k].id = id].label
  ELSE id

CountKeys == {"OK", "Not OK", "N/A", ""}

\* the test of compute_summary for the item that reports the final status
IsFinalItem_IdOnly(id, label) == Contains(Fold(id), Fold("final"))

IsFinalItem(id, label) ==
  \/ Contains(Fold(id), Fold("final"))
  \/ Contains(Fold(label), Fold("returned to normal operation"))
  \/ Contains(Fold(label), Fold("final status"))
  \/ Contains(Fold(label), Fold("unit returned"))

compute_summary(report) ==
  LET res == report.results
      map == id_to_label(report.sections)
      counts == [c \in CountKeys |->
                   Cardinality({k \in 1..Len(res) :
                                  (IF res[k].status \in CountKeys THEN res[k].status ELSE "") = c})]
      notOk == SelectSeq(res, LAMBDA v : v.status = "Not OK")
      final_status_not_ok ==
        \E k \in 1..Len(map) :
          StatusOf(res, map[k].id) = "Not OK" /\ IsFinalItem(map[k].id, map[k].label)
  IN [counts |-> counts,
      not_ok_items |-> [k \in 1..Len(notOk) |-> LabelOrId(map, notOk[k].id)],
      overall |-> IF final_status_not_ok THEN "CRITICAL"
                  ELSE IF counts["Not OK"] > 0 THEN "ATTENTION"
                  ELSE "OK"]

\* a validation that takes the notes as they were typed
validate_report_Unstripped(report) ==
  LET map == id_to_label(report.sections)
      bad == SelectSeq(report.results, LAMBDA v : v.status = "Not OK" /\ v.notes = "")
  IN [k \in 1..Len(bad) |-> LabelOrId(map, bad[k].id)]

\* validate_report(report): an error for every result that is Not OK without
\* notes; the error is kept as the label it names
validate_report(report) ==
  LET map == id_to_label(report.sections)
      bad == SelectSeq(report.results,
                       LAMBDA v : v.status = "Not OK" /\ safe_text(v.notes) = "")
  IN [k \in 1..Len(bad) |-> LabelOrId(map, bad[k].id)]

RECURSIVE Initialise(_, _, _)
\* if item_id not in st.session_state.results: ... = {"status": "", "notes": ""}
Initialise(res, items, k) ==
  IF k > Len(items) THEN res
  ELSE Initialise(IF HasKey(res, items[k].id) THEN res
                  ELSE Append(res, [id |-> items[k].id, status |-> "", notes |-> ""]),
                  items, k + 1)

\* one run of the script over checklist secs with results res: the item
\* loop, current_report, and the export tab
Run(secs, res) ==
  LET r == Initialise(res, AllItems(secs, 1), 1)
      report == [sections |-> secs, results |-> r]
      errs == validate_report(report)
  IN [results |-> r, errors |-> errs, disabled |-> errs # <<>>,
      summary |-> compute_summary(report)]

Shown == {AllItems(sections, 1)[k].id : k \in 1..Len(AllItems(sections, 1))}

\* the first run of a session
InitReport ==
  /\ ExtractIdle
  /\ OpexIdle
  /\ CallsIdle
  /\ ReuseIdle
  /\ PhotosIdle
  /\ sections \in Checklists
  /\ results = Run(sections, <<>>).results
  /\ errors = Run(sections, <<>>).errors
  /\ disabled = Run(sections, <<>>).disabled
  /\ summary = Run(sections, <<>>).summary
  /\ edits = 0

\* the state a run leaves
RunLeaves(secs, res) ==
  /\ sections' = secs
  /\ results' = Run(secs, res).results
  /\ errors' = Run(secs, res).errors
  /\ disabled' = Run(secs, res).disabled
  /\ summary' = Run(secs, res).summary
  /\ edits' = edits + 1
  /\ UNCHANGED besideReport

\* the user picks a status for an item shown; the script runs
SetStatus ==
  /\ edits < MaxEdits
  /\ \E id \in Shown : \E k \in 1..Len(STATUS_OPTIONS) :
       /\ StatusOf(results, id) # STATUS_OPTIONS[k]
       /\ RunLeaves(sections,
                    [n \in 1..Len(results) |->
                       IF results[n].id = id
                       THEN [results[n] EXCEPT !.status = STATUS_OPTIONS[k]]
                       ELSE results[n]])

\* the user types the notes of an item shown; the script runs
SetNotes ==
  /\ edits < MaxEdits
  /\ \E id \in Shown : \E t \in NoteTexts :
       /\ \E n \in 1..Len(results) : results[n].id = id /\ results[n].notes # t
       /\ RunLeaves(sections,
                    [n \in 1..Len(results) |->
                       IF results[n].id = id
                       THEN [results[n] EXCEPT !.notes = t]
                       ELSE results[n]])

\* the checklist file has changed when the user next interacts; the script
\* runs over the new checklist
LoadChecklist ==
  /\ edits < MaxEdits
  /\ \E secs \in Checklists \ {sections} : RunLeaves(secs, results)

NextReport == SetStatus \/ SetNotes \/ LoadChecklist

SpecReport == InitReport /\ [][NextReport]_allVars

\* t is empty or holds whitespace only
Blank(t) == \A k \in 1..Len(t) : Char(t, k) \in SpaceChars

\* C19: after every run of the script the three download buttons are
\* disabled exactly when some result has status "Not OK" and blank notes.
C19_ExportGating ==
  disabled <=> \E k \in 1..Len(results) :
                 results[k].status = "Not OK" /\ Blank(results[k].notes)

\* export disabled by one Not OK item whose notes are whitespace
C19_Witness ==
  /\ disabled
  /\ \E k \in 1..Len(results) :
       results[k].status = "Not OK" /\ results[k].notes = " \t"
  /\ Len(errors) = 1

\* s holds phrase, letter case aside
Mentions(s, phrase) == Contains(Fold(s), Fold(phrase))

\* the checklist items identified as final status
FinalStatusItems ==
  {it \in {AllItems(sections, 1)[k] : k \in 1..Len(AllItems(sections, 1))} :
     \/ Mentions(it.id, "final")
     \/ \E p \in {"returned to normal operation", "final status", "unit returned"} :
          Mentions(it.label, p)}

NotOkIds == {results[k].id : k \in {n \in 1..Len(results) : results[n].status = "Not OK"}}

\* C20: overall is "CRITICAL" when a checklist item identified as final
\* status is Not OK, otherwise "ATTENTION" when some result is Not OK,
\* otherwise "OK"; the counts add up to the number of results; "CRITICAL"
\* comes with a Not OK count of at least 1.
C20_OverallStatus ==
  /\ summary.overall =
       IF \E it \in FinalStatusItems : it.id \in NotOkIds THEN "CRITICAL"
       ELSE IF NotOkIds # {} THEN "ATTENTION"
       ELSE "OK"
  /\ summary.counts["OK"] + summary.counts["Not OK"] + summary.counts["N/A"]
       + summary.counts[""] = Len(results)
  /\ summary.overall = "CRITICAL" => summary.counts["Not OK"] >= 1

\* "CRITICAL" from an item whose label, not its id, identifies it, beside a
\* result that is OK
C20_Witness ==
  /\ summary.overall = "CRITICAL"
  /\ NotOkIds = {"handback"}
  /\ summary.counts["Not OK"] = 1
  /\ summary.counts["OK"] = 1

(***************************************************************************)
(* opex_summary of compare.py.  The two options are mappings as the        *)
(* extraction returns them: a key is absent, or holds None, a float or a   *)
(* string.  Numbers are kept as reduced fractions n/d, so the quotient     *)
(* capacity / EER and the products are exact; the rounding of Python's     *)
(* floats is not part of the model.                                        *)
(***************************************************************************)
RECURSIVE Gcd(_, _)
Gcd(a, b) == IF b = 0 THEN a ELSE Gcd(b, a % b)

Abs(n) == IF n < 0 THEN 0 - n ELSE n

\* None
NoNum == [none |-> TRUE, n |-> 0, d |-> 1]

\* the number n/d, d # 0
Rat(n, d) ==
  LET g == Gcd(Abs(n), Abs(d))
      sg == IF d < 0 THEN 0 - 1 ELSE 1
  IN [none |-> FALSE, n |-> sg * (n \div g), d |-> sg * (d \div g)]

RatMul(x, y) == Rat(x.n * y.n, x.d * y.d)

\* x / y, y # 0
RatDiv(x, y) == Rat(x.n * y.d, x.d * y.n)

RatSub(x, y) == Rat(x.n * y.d - y.n * x.d, x.d * y.d)

RECURSIVE TenTo(_)
TenTo(e) == IF e = 0 THEN 1 ELSE 10 * TenTo(e - 1)

\* d.get(key)
DictGet(d, key) == IF key \in DOMAIN d THEN d[key] ELSE NoneVal

\* s is written as -?digits(.digits)?
IsFloatText(s) ==
  LET b == IF s # "" /\ Char(s, 1) = "-" THEN SubSeq(s, 2, Len(s)) ELSE s
      dots == {k \in 1..Len(b) : Char(b, k) = "."}
  IN /\ b # ""
     /\ \A k \in 1..Len(b) : Char(b, k) \in DigitChars \cup {"."}
     /\ Cardinality(dots) <= 1
     /\ 1 \notin dots
     /\ Len(b) \notin dots

\* float(s) for a string s: the number, for a string written as
\* -?digits(.digits)?; ValueError (None here) for the other strings of the inputs
PyFloat(s) ==
  IF IsFloatText(s) THEN Rat(ParseFloat(s).num, TenTo(ParseFloat(s).exp)) ELSE NoNum

\* _as_num(x)
_as_num(x) ==
  IF x.kind = "none" THEN NoNum
  ELSE IF x.kind = "float" THEN Rat(x.num, TenTo(x.exp))
  ELSE PyFloat(RemoveCommas(Strip(x.s)))

\* x or y, for x and y a float or None
PyOr(x, y) == IF ~x.none /\ x.n # 0 THEN x ELSE y

\* power_from(d)
power_from(d) ==
  LET p == _as_num(DictGet(d, "power_kw"))
      cap == PyOr(_as_num(DictGet(d, "net_capacity_kw")),
                  _as_num(DictGet(d, "gross_capacity_kw")))
      eer == PyOr(_as_num(DictGet(d, "net_eer_kw_per_kw")),
                  _as_num(DictGet(d, "gross_eer_kw_per_kw")))
  IN IF ~p.none THEN p
     ELSE IF cap.none \/ eer.none \/ eer.n = 0 THEN NoNum
     ELSE RatDiv(cap, eer)

\* None if p is None else p * float(x)
Times(p, x) == IF p.none THEN NoNum ELSE RatMul(p, x)

\* opex_summary(a, b, electricity_price, eflh, years, currency, capex_a, capex_b):
\* the values of the rows of the frame it returns
opex_summary(a, b, q) ==
  LET pa == power_from(a)
      pb == power_from(b)
      kwh_a == Times(pa, q.eflh)
      kwh_b == Times(pb, q.eflh)
      cost_a == Times(kwh_a, q.electricity_price)
      cost_b == Times(kwh_b, q.electricity_price)
      savings == IF cost_a.none \/ cost_b.none THEN NoNum ELSE RatSub(cost_a, cost_b)
      capex_delta == RatSub(q.capex_b, q.capex_a)
  IN [done |-> TRUE, pa |-> pa, pb |-> pb, kwh_a |-> kwh_a, kwh_b |-> kwh_b,
      cost_a |-> cost_a, cost_b |-> cost_b,
      total_a |-> Times(cost_a, Rat(q.years, 1)),
      total_b |-> Times(cost_b, Rat(q.years, 1)),
      savings_per_year |-> savings,
      capex_delta |-> capex_delta,
      payback_years |-> IF ~savings.none /\ savings.n > 0 /\ capex_delta.n > 0
                        THEN RatDiv(capex_delta, savings)
                        ELSE NoNum]

\* a key the mapping does not hold
Absent == [kind |-> "absent", s |-> "", num |-> 0, exp |-> 0]

PutIfAny(d, key, v) == IF v = Absent THEN d ELSE Put(d, key, v)

Option(p, nc, gc, ne, ge) ==
  PutIfAny(PutIfAny(PutIfAny(PutIfAny(PutIfAny(EmptyMap,
    "power_kw", p), "net_capacity_kw", nc), "gross_capacity_kw", gc),
    "net_eer_kw_per_kw", ne), "gross_eer_kw_per_kw", ge)

OptionsA ==
  {Option(p, nc, gc, ne, ge) :
     p \in {Absent, NoneVal, FloatVal(0, 0), FloatVal(120, 0), StrVal("1,200")},
     nc \in {Absent, FloatVal(0, 0), FloatVal(450, 0)},
     gc \in {Absent, FloatVal(0, 0), FloatVal(500, 0), StrVal("n/a")},
     ne \in {Absent, FloatVal(0, 0), FloatVal(3, 0)},
     ge \in {Absent, FloatVal(0, 0), FloatVal(25, 1)}}

OptionsB ==
  { Option(FloatVal(1105, 1), FloatVal(450, 0), Absent, FloatVal(3, 0), Absent),
    Option(Absent, FloatVal(0, 0), FloatVal(500, 0), Absent, FloatVal(25, 1)),
    Option(Absent, Absent, StrVal(" 480 "), FloatVal(0, 0), FloatVal(32, 1)),
    EmptyMap }

ParamSets ==
  {[electricity_price |-> Rat(12, 100), eflh |-> h, years |-> 10,
    capex_a |-> c[1], capex_b |-> c[2]] :
     h \in {Rat(0, 1), Rat(2000, 1)},
     c \in {<<Rat(0, 1), Rat(0, 1)>>, <<Rat(1000, 1), Rat(1500, 1)>>}}

InitOpex ==
  /\ ExtractIdle
  /\ CallsIdle
  /\ ReuseIdle
  /\ PhotosIdle
  /\ ReportIdle
  /\ opt_a \in OptionsA
  /\ opt_b \in OptionsB
  /\ params \in ParamSets
  /\ opex = [done |-> FALSE]

\* the call of opex_summary
Compute ==
  /\ ~opex.done
  /\ opex' = opex_summary(opt_a, opt_b, params)
  /\ UNCHANGED <<opt_a, opt_b, params>>
  /\ UNCHANGED besideOpex

NextOpex == Compute

SpecOpex == InitOpex /\ [][NextOpex]_allVars

\* key is present in d with a number
Present(d, key) == key \in DOMAIN d /\ ~_as_num(d[key]).none

\* the first of the keys that is present in d, as a number; None when none is
Preferred(d, first, second) ==
  IF Present(d, first) THEN _as_num(d[first])
  ELSE IF Present(d, second) THEN _as_num(d[second])
  ELSE NoNum

\* the power the claim gives option d
ClaimedPower(d) ==
  LET cap == Preferred(d, "net_capacity_kw", "gross_capacity_kw")
      eer == Preferred(d, "net_eer_kw_per_kw", "gross_eer_kw_per_kw")
  IN IF Present(d, "power_kw") THEN _as_num(d["power_kw"])
     ELSE IF cap.none \/ eer.none \/ eer.n = 0 THEN NoNum
     ELSE RatDiv(cap, eer)

\* C21: the power of an option is its power_kw when that is present;
\* otherwise capacity / EER, with the net capacity where it is present and
\* the gross capacity where it is not, and likewise the EER; None when no
\* capacity or no EER is present or the EER is 0.  The annual energy is the
\* power times EFLH, None for no power.
C21_PowerFallback ==
  opex.done =>
    /\ opex.pa = ClaimedPower(opt_a)
    /\ opex.pb = ClaimedPower(opt_b)
    /\ opex.kwh_a = IF opex.pa.none THEN NoNum ELSE RatMul(opex.pa, params.eflh)
    /\ opex.kwh_b = IF opex.pb.none THEN NoNum ELSE RatMul(opex.pb, params.eflh)

\* the positions of cs at which a line begins
LineStarts(cs) == {1} \cup {k + 1 : k \in {n \in 1..Len(cs) : cs[n] = "\n"}}

\* the lines of cs that begin with a match of pat
OwnLines(pat, cs) == MatchStarts(pat, cs) \cap LineStarts(cs)

\* a line of a longer label that ends in "current", with its value
LongerCurrentLine ==
  Cat(<<Alt(LitIC("Start-up current"), LitIC("Maximum running current")),
        Plus(WS), UnsignedNumber, Star(WS), LitIC("A")>>)

CurrentLine ==
  Cat(<<LitIC("Current"), Plus(WS), Grp(1, UnsignedNumber), Star(WS), LitIC("A")>>)

ChillerModelLine == Cat(<<LitIC("Chiller model"), Plus(WS), Plus(DOT)>>)

ModelLine == Cat(<<LitIC("Model"), Plus(WS), Grp(1, Plus(DOT))>>)

\* the text of group 1 of the match of pat at the first of the positions ps
FirstLineValue(pat, cs, ps) ==
  LET p == CHOOSE q \in ps : \A r \in ps : q <= r
      m == MatchesAt(pat, cs, p)[1]
  IN SubSeq(text, m.caps[1][1], m.caps[1][2] - 1)

\* C22: a field takes its value from the line of its own label, not from a
\* longer label that ends in it.  Where a "Start-up current x A" or
\* "Maximum running current x A" line comes before a line "Current y A",
\* running_current_a is y; where a "Chiller model c" line comes before a line
\* "Model m", model is m.
C22_NoCrossLabelCapture ==
  ret.returned =>
    \A cs \in {Fold(text)} :
      /\ \A own \in {OwnLines(CurrentLine, cs)} :
           (\E p \in OwnLines(LongerCurrentLine, cs) : \E q \in own : p < q) =>
             /\ "running_current_a" \in DOMAIN ret.value
             /\ ret.value["running_current_a"]
                  = ParseFloat(FirstLineValue(CurrentLine, cs, own))
      /\ \A own \in {OwnLines(ModelLine, cs)} :
           (\E p \in OwnLines(ChillerModelLine, cs) : \E q \in own : p < q) =>
             \/ Len(Strip(FirstLineValue(ModelLine, cs, own))) > ModelMaxLen
             \/ /\ "model" \in DOMAIN ret.value
                /\ ret.value["model"] = StrVal(Strip(FirstLineValue(ModelLine, cs, own)))

====
